---- MODULE Spec2Model ----
(***************************************************************************)
(* State-machine model of the arsdk UDP transport (arsdk_transport_net):   *)
(* the frame codec (send_data's header encoding, process_rxbuf's decode    *)
(* loop), the socket read / write error paths with the parent's link       *)
(* status, and the start / stop lifecycle.  32-bit unsigned values are     *)
(* pairs <<hi, lo>> of 16-bit halves so that wrap-around is computed as    *)
(* the C code computes it.                                                 *)
(***************************************************************************)
EXTENDS Integers, Sequences, FiniteSets, TLC

(***************************************************************************)
(* Program constants                                                       *)
(***************************************************************************)
ARSDK_FRAME_HEADER_SIZE == 7

\* errno values, as <errno.h> of Linux gives them; errno itself is always a
\* positive number
EINTR == 4
EAGAIN == 11
EWOULDBLOCK == 11
EBUSY == 16
EINVAL == 22
EPIPE == 32
ENOBUFS == 105
ENOMEM == 12
EACCES == 13
EADDRINUSE == 98

\* arsdk_transport_ids.h
ARSDK_TRANSPORT_ID_MAX == 256
ARSDK_TRANSPORT_ID_MAX_BLE == 32
ARSDK_TRANSPORT_ID_INVALID == 255
ARSDK_TRANSPORT_ID_PING == 0
ARSDK_TRANSPORT_ID_PONG == 1
ARSDK_TRANSPORT_ID_C2D_CMD_NOACK == 10
ARSDK_TRANSPORT_ID_C2D_CMD_WITHACK == 11
ARSDK_TRANSPORT_ID_C2D_CMD_HIGHPRIO == 12
ARSDK_TRANSPORT_ID_D2C_CMD_NOACK == 127
ARSDK_TRANSPORT_ID_D2C_CMD_WITHACK == 126
ARSDK_TRANSPORT_ID_D2C_CMD_NOACK_BLE == 15
ARSDK_TRANSPORT_ID_D2C_CMD_WITHACK_BLE == 14

\* ARSDK_TRANSPORT_ID_ACKOFF a quarter of the namespace
ARSDK_TRANSPORT_ID_ACKOFF_Quarter == ARSDK_TRANSPORT_ID_MAX \div 4

ARSDK_TRANSPORT_ID_ACKOFF == ARSDK_TRANSPORT_ID_MAX \div 2

ARSDK_TRANSPORT_ID_ACKOFF_BLE == ARSDK_TRANSPORT_ID_MAX_BLE \div 2

ARSDK_TRANSPORT_ID_C2D_CMD_ACK ==
  ARSDK_TRANSPORT_ID_D2C_CMD_WITHACK + ARSDK_TRANSPORT_ID_ACKOFF

ARSDK_TRANSPORT_ID_C2D_CMD_ACK_BLE ==
  ARSDK_TRANSPORT_ID_D2C_CMD_WITHACK_BLE + ARSDK_TRANSPORT_ID_ACKOFF_BLE

ARSDK_TRANSPORT_ID_D2C_CMD_ACK ==
  ARSDK_TRANSPORT_ID_C2D_CMD_WITHACK + ARSDK_TRANSPORT_ID_ACKOFF

ARSDK_TRANSPORT_ID_D2C_CMD_HIGHPRIO_ACK ==
  ARSDK_TRANSPORT_ID_C2D_CMD_HIGHPRIO + ARSDK_TRANSPORT_ID_ACKOFF

ARSDK_TRANSPORT_ID_D2C_CMD_ACK_BLE ==
  ARSDK_TRANSPORT_ID_C2D_CMD_WITHACK + ARSDK_TRANSPORT_ID_ACKOFF_BLE

ARSDK_TRANSPORT_ID_D2C_CMD_HIGHPRIO_ACK_BLE ==
  ARSDK_TRANSPORT_ID_C2D_CMD_HIGHPRIO + ARSDK_TRANSPORT_ID_ACKOFF_BLE

NULL == "NULL"

(***************************************************************************)
(* Bounds of the model                                                     *)
(***************************************************************************)
MaxFrames == 2      \* chunks a peer packs into one datagram
MaxForward == 4     \* frames one callback hands to the parent before the model stops following it
MaxPayload == 2     \* payload bytes of a frame sent by send_data
MaxEintr == 1       \* interrupted system calls before one that completes
MaxTxFail == 2      \* consecutive ENOBUFS results the environment produces
MaxRun == 2         \* length up to which a run of failing calls is counted
MaxBind == 3        \* bind calls whose results the environment scripts

(***************************************************************************)
(* uint32_t arithmetic: a value v is <<v \div 2^16, v % 2^16>>             *)
(***************************************************************************)
Half == 256 * 256

U32(n) == <<(n \div Half) % Half, n % Half>>

U32Add(a, b) ==
  LET lo == a[2] + b[2]
      hi == a[1] + b[1] + (lo \div Half)
  IN  <<hi % Half, lo % Half>>

U32Sub(a, b) ==
  LET lo == a[2] - b[2]
      borrow == IF lo < 0 THEN 1 ELSE 0
      hi == a[1] - b[1] - borrow
  IN  <<(hi + Half) % Half, (lo + Half) % Half>>

U32Lt(a, b) == a[1] < b[1] \/ (a[1] = b[1] /\ a[2] < b[2])

U32Gt(a, b) == U32Lt(b, a)

\* the number a uint32_t stands for, for values below 2^31
U32Nat(a) == a[1] * Half + a[2]

\* the low byte of a uint32_t shifted right by 8 * k bits
U32Byte(a, k) ==
  CASE k = 0 -> a[2] % 256
    [] k = 1 -> a[2] \div 256
    [] k = 2 -> a[1] % 256
    [] k = 3 -> a[1] \div 256

(***************************************************************************)
(* Frame codec                                                             *)
(***************************************************************************)
\* size = headerbuf[3] | headerbuf[4] << 8 | headerbuf[5] << 16 | headerbuf[6] << 24
\* hb is the 7-byte header, 1-based: hb[k + 1] is headerbuf[k]
DecodeSize(hb) == <<hb[6] + hb[7] * 256, hb[4] + hb[5] * 256>>

\* EncodeHeader with the size written most significant byte first
EncodeHeader_BigEndian(header, size) ==
  << header.type % 256, header.id % 256, header.seq % 256,
     U32Byte(size, 3), U32Byte(size, 2), U32Byte(size, 1), U32Byte(size, 0) >>

\* the 7 bytes send_data builds from the header and the computed size
EncodeHeader(header, size) ==
  << header.type % 256, header.id % 256, header.seq % 256,
     U32Byte(size, 0), U32Byte(size, 1), U32Byte(size, 2), U32Byte(size, 3) >>

\* size = ARSDK_FRAME_HEADER_SIZE + extra_hdrlen + payload->len, as uint32_t
FrameSize(extra_hdrlen, payloadlen) ==
  U32Add(U32Add(U32(ARSDK_FRAME_HEADER_SIZE), U32(extra_hdrlen)), U32(payloadlen))

\* bytes [off, off + len) of buf, off counted from 0
Slice(buf, off, len) == SubSeq(buf, off + 1, off + len)

(***************************************************************************)
(* State                                                                   *)
(***************************************************************************)
VARIABLES
  started,        \* self->started
  fd,             \* self->data_sock.fd, -1 when closed
  registered,     \* how many times the event loop holds fd for POMP_FD_EVENT_IN
  qos_mode,       \* self->cfg.qos_mode
  link_status,    \* the parent's link status, "OK" or "KO"
  tx_fail,        \* self->tx_fail
  rx_drop_ratio,  \* self->rx_drop_ratio
  tx_drop_ratio,  \* self->tx_drop_ratio
  rxbuf,          \* the bytes the last recvfrom left in data_sock.rxbuf
  rxlen,          \* process_rxbuf: rxlen
  rxoff,          \* process_rxbuf: rxoff, a uint32_t
  pc,             \* "idle", or "process_rxbuf" inside the decode loop
  wire,           \* the datagram the last sendmsg put on the network
  op,             \* the operation that ran last
  ret,            \* its return code (for data_fd_cb: what socket_read returned)
  events,         \* what it logged and handed to the parent, in order
  pre_link,       \* the link status when it was entered
  io,             \* its recvfrom / sendmsg calls: how many, how many interrupted, the last result
  rxorig,         \* the send_data arguments behind the datagram being decoded
  txrun,          \* the current run of send_data calls failing with a genuine error
  rxrun,          \* the current run of read callbacks failing with a genuine error
  enobufs,        \* ENOBUFS results since the last write that returned the full size
  phase,          \* "none" before arsdk_transport_net_new, "open" once it returned 0, "gone" once freed
  kind,           \* self->data_sock.kind
  rxbuf_live,     \* data_sock.rxbuf points to an allocated buffer
  rx_port,        \* self->cfg.data.rx_port, through data_sock.rxport
  tx_addr,        \* self->cfg.tx_addr, through data_sock.txaddr
  tx_port,        \* self->cfg.data.tx_port, through data_sock.txport
  bound_port,     \* the port the OS bound the socket to, 0 when unbound
  ledger,         \* what the object did so far: sockets opened and closed, buffers allocated and freed
  args_ok         \* the last operation's arguments passed its argument checks

life == <<started, fd, registered, qos_mode>>
cfgv == <<rx_drop_ratio, tx_drop_ratio>>
rxv  == <<rxbuf, rxlen, rxoff, pc, rxorig>>
obsv == <<op, ret, events, pre_link, io>>
runs == <<txrun, rxrun, enobufs>>
sockv == <<phase, kind, rxbuf_live, rx_port, tx_addr, tx_port, bound_port, ledger>>
vars == <<life, cfgv, link_status, tx_fail, rxv, wire, obsv, runs, sockv, args_ok>>

(***************************************************************************)
(* The environment's inputs                                                *)
(***************************************************************************)
\* errno values of failures that are neither would-block, ENOBUFS nor EINTR
\* (ENETUNREACH, ECONNREFUSED)
GenuineErrnos == {101, 111}

\* percentages read from the environment by arsdk_transport_net_new
DropRatios == {0, 50, 100}

\* values of rand() % 100
RandVals == {0, 99}

\* (type, id, seq) of the frames send_data is given
Headers == { [null |-> FALSE, type |-> 2, id |-> ARSDK_TRANSPORT_ID_C2D_CMD_NOACK, seq |-> 0],
             [null |-> FALSE, type |-> 4, id |-> ARSDK_TRANSPORT_ID_D2C_CMD_WITHACK,
              seq |-> 255] }

\* a NULL header pointer
NoHeader == [null |-> TRUE, type |-> 0, id |-> 0, seq |-> 0]

\* a payload of n bytes whose content depends on the position
Bytes(n) == [i \in 1..n |-> (37 + 109 * i) % 256]

\* a payload view: cdata (has_cdata = FALSE for a NULL cdata) and len
Payloads == { [null |-> FALSE, has_cdata |-> TRUE, cdata |-> Bytes(n), len |-> n] :
                n \in 0..MaxPayload }
              \cup { [null |-> FALSE, has_cdata |-> FALSE, cdata |-> << >>, len |-> n] :
                       n \in 0..1 }

\* a NULL payload pointer
NoPayload == [null |-> TRUE, has_cdata |-> FALSE, cdata |-> << >>, len |-> 0]

\* extra_hdr (has_hdr = FALSE for NULL) and extra_hdrlen
NoExtra == [has_hdr |-> FALSE, hdr |-> << >>, len |-> 0]

ExtraHdrs == { NoExtra, [has_hdr |-> TRUE, hdr |-> <<9>>, len |-> 1],
               [has_hdr |-> FALSE, hdr |-> << >>, len |-> 1] }

\* the rx port of the configuration the transport is made with, in host
\* byte order (0 asks the OS for an ephemeral port), and the ports the OS
\* hands out for port 0
FixedPort == 2233
ConfiguredPorts == {0, FixedPort, 49152}
EphemeralPorts == {49152, 49153}

\* htons / ntohs of a little-endian host: the two bytes of a uint16_t swapped
htons(p) == (p % 256) * 256 + (p \div 256)

ntohs(p) == (p % 256) * 256 + (p \div 256)

\* htonl of a little-endian host: the four bytes of a uint32_t reversed
htonl(a) == <<htons(a[2]), htons(a[1])>>

\* the in_addr_t of the dotted quad a.b.c.d, in host byte order
InAddr(a, b, c, d) == <<a * 256 + b, c * 256 + d>>

\* the peers a configuration can name: tx addresses and tx ports
TxAddrs == { InAddr(192, 168, 42, 1), InAddr(192, 168, 53, 1) }
TxPorts == { FixedPort, 54321 }

\* the peer of the configuration the transport is created with
PeerAddr == InAddr(192, 168, 42, 1)

\* socket_write that addresses the datagram in host byte order
TxTo_HostOrder(addr, port) == [sin_addr |-> addr, sin_port |-> port]

\* the sockaddr_in socket_write hands to sendmsg
TxTo(addr, port) == [sin_addr |-> htonl(addr), sin_port |-> htons(port)]

\* no destination
NoAddr == [sin_addr |-> U32(0), sin_port |-> 0]

\* what the object did so far: nothing yet, and after the socket_setup of a
\* successful arsdk_transport_net_new
Nothing == [opened |-> 0, closed |-> 0, regclosed |-> 0, alloc |-> 0, freed |-> 0,
            socketcb |-> 0, ret_obj |-> NULL]
Opened  == [opened |-> 1, closed |-> 0, regclosed |-> 0, alloc |-> 1, freed |-> 0,
              socketcb |-> 1, ret_obj |-> "self"]

\* nothing on the network
NoWire == [flying |-> FALSE, bytes |-> << >>, header |-> NoHeader,
           payload |-> NoPayload, extra |-> NoExtra, to |-> NoAddr]

\* one chunk a peer lays into a datagram: a 7-byte header whose size field is
\* sz (4 bytes, little-endian) followed by n bytes
Chunk(t, sz, n) == <<t, 10, 1>> \o sz \o Bytes(n)

Chunks == { Chunk(2, <<7, 0, 0, 0>>, 0),          \* well-formed, empty payload
            Chunk(4, <<10, 0, 0, 0>>, 3),         \* well-formed, 3 payload bytes
            Chunk(2, <<6, 0, 0, 0>>, 0),          \* size < 7
            Chunk(2, <<11, 0, 0, 0>>, 3),         \* size one more than the bytes present
            Chunk(2, <<249, 255, 255, 255>>, 0),  \* size = 2^32 - 7
            Chunk(2, <<7, 0, 0, 128>>, 0) }       \* size = 2^31 + 7

RECURSIVE Packed(_)
Packed(k) == IF k = 0 THEN { <<>> }
             ELSE { d \o c : d \in Packed(k - 1), c \in Chunks }

\* frames of sizes 10, 7 and 23 laid back to back
Packed_10_7_23 ==
  Chunk(4, <<10, 0, 0, 0>>, 3) \o Chunk(2, <<7, 0, 0, 0>>, 0) \o Chunk(2, <<23, 0, 0, 0>>, 16)

PeerDatagrams ==
  { d \o t : d \in UNION { Packed(k) : k \in 1..MaxFrames }, t \in { <<>>, <<1, 2, 3>> } }
    \cup { Packed_10_7_23 }

\* the result of one recvfrom / sendmsg call: n bytes, or n = -1 and errno
SysOk(n, d) == [n |-> n, errno |-> 0, data |-> d]
SysErr(e) == [n |-> -1, errno |-> e, data |-> <<>>]

\* no system call made
NoIo == [calls |-> 0, eintrs |-> 0, last |-> SysOk(0, << >>)]

\* k interrupted calls followed by the call returning r
Script(k, r) == [i \in 1..k |-> SysErr(EINTR)] \o <<r>>

\* what recvfrom returns for the datagrams ds and the errno values es
RecvResults(ds, es) == { SysOk(Len(d), d) : d \in ds } \cup { SysErr(e) : e \in es }

\* the datagrams and errors of the link-status specification: one well-formed
\* frame, a truncated header, an empty datagram
FewDatagrams == { Chunk(2, <<7, 0, 0, 0>>, 0), <<1, 2, 3>>, << >> }

RecvErrnos == { EAGAIN } \cup GenuineErrnos

\* what sendmsg does with iov: an errno, or all of it, all but one byte, nothing
SendOutcomes == { [errno |-> e, cut |-> 0] : e \in { EAGAIN, ENOBUFS } \cup GenuineErrnos }
                  \cup { [errno |-> 0, cut |-> c] : c \in 0..2 }

SendmsgResult(o, iov) ==
  IF o.errno # 0 THEN SysErr(o.errno)
  ELSE LET n == CASE o.cut = 0 -> Len(iov) [] o.cut = 1 -> Len(iov) - 1 [] OTHER -> 0
       IN  SysOk(n, SubSeq(iov, 1, n))

(***************************************************************************)
(* socket_read, socket_write                                               *)
(***************************************************************************)
ARSDK_WOULD_BLOCK(err) == err = EAGAIN \/ err = EWOULDBLOCK

\* while (readlen < 0 && errno == -EINTR)
ReadRetry(r) == r.n < 0 /\ r.errno = -EINTR

\* while (writelen < 0 && errno == EINTR)
WriteRetry(r) == r.n < 0 /\ r.errno = EINTR

\* the index in script of the call a do-while loop ends with
RECURSIVE ReadLoop(_, _)
ReadLoop(script, i) ==
  IF i < Len(script) /\ ReadRetry(script[i]) THEN ReadLoop(script, i + 1) ELSE i

RECURSIVE WriteLoop(_, _)
WriteLoop(script, i) ==
  IF i < Len(script) /\ WriteRetry(script[i]) THEN WriteLoop(script, i + 1) ELSE i

\* how many of the first i calls of script were interrupted
Interrupted(script, i) == Cardinality({ j \in 1..i : script[j] = SysErr(EINTR) })

\* Dropped with the comparison off by one
Dropped_OffByOne(ratio, rnd) == ratio # 0 /\ (rnd % 100) + 1 < ratio

\* a simulated drop: ratio != 0 && rand() % 100 < ratio
Dropped(ratio, rnd) == ratio # 0 /\ rnd % 100 < ratio

\* ReadLogsError without the test for would-block
ReadLogsError_WouldBlock(res, check_link_status, link) ==
  ~check_link_status \/ link = "OK"

\* ReadLogsError without the test of the link status
ReadLogsError_NoStatus(res, check_link_status, link) == ~ARSDK_WOULD_BLOCK(-res)

\* whether socket_read logs the error res (and, when checking, sets the link KO)
ReadLogsError(res, check_link_status, link) ==
  ~ARSDK_WOULD_BLOCK(-res) /\ (~check_link_status \/ link = "OK")

socket_read(script, rnd, check_link_status, link) ==
  LET i == ReadLoop(script, 1)
      r == script[i]
      sys == [calls |-> i, eintrs |-> Interrupted(script, i), last |-> r]
  IN  IF r.n > 0 THEN
        IF Dropped(rx_drop_ratio, rnd)
        THEN [ret |-> -EAGAIN, logs |-> << [ev |-> "LOGI", msg |-> "rx drop"] >>,
              link |-> link, sys |-> sys]
        ELSE [ret |-> r.n, logs |-> << >>, link |-> link, sys |-> sys]
      ELSE IF r.n = 0 THEN
        [ret |-> 0, logs |-> << [ev |-> "LOGI", msg |-> "EOF"] >>, link |-> link, sys |-> sys]
      ELSE IF ReadLogsError(-r.errno, check_link_status, link) THEN
        [ret |-> -r.errno, logs |-> << [ev |-> "LOGE", msg |-> "read"] >>,
         link |-> IF check_link_status THEN "KO" ELSE link, sys |-> sys]
      ELSE
        [ret |-> -r.errno, logs |-> << >>, link |-> link, sys |-> sys]

socket_write(script, rnd, total) ==
  IF Dropped(tx_drop_ratio, rnd)
  THEN [ret |-> total, logs |-> << [ev |-> "LOGI", msg |-> "tx drop"] >>,
        sys |-> NoIo]
  ELSE LET i == WriteLoop(script, 1)
           r == script[i]
       IN  [ret |-> IF r.n >= 0 THEN r.n ELSE -r.errno, logs |-> << >>,
            sys |-> [calls |-> i, eintrs |-> Interrupted(script, i), last |-> r]]

(***************************************************************************)
(* Runs of consecutive failing calls                                       *)
(***************************************************************************)
NoRun == [k |-> 0, trans |-> 0, logs |-> 0]

Sat(n) == IF n < MaxRun THEN n + 1 ELSE MaxRun

\* the run after one more failing call that logged (or not) and took the link
\* from OK to KO (or not)
Longer(run, logged, moved) ==
  [k |-> Sat(run.k),
   trans |-> IF moved THEN Sat(run.trans) ELSE run.trans,
   logs |-> IF logged THEN Sat(run.logs) ELSE run.logs]

\* how many of the events evs are logs of the level lvl with the message msg
Logged(evs, lvl, msg) ==
  Cardinality({ i \in 1..Len(evs) : evs[i].ev = lvl /\ evs[i].msg = msg })

(***************************************************************************)
(* Initial state: arsdk_transport_net_new returned 0                       *)
(***************************************************************************)
InitAny ==
  /\ started = FALSE
  /\ fd = 3
  /\ registered = 0
  /\ qos_mode = 1
  /\ link_status \in {"OK", "KO"}
  /\ tx_fail = 0
  /\ rx_drop_ratio \in DropRatios
  /\ tx_drop_ratio \in DropRatios
  /\ rxbuf = << >>
  /\ rxlen = 0
  /\ rxoff = U32(0)
  /\ pc = "idle"
  /\ wire = NoWire
  /\ op = "new"
  /\ ret = 0
  /\ events = << >>
  /\ pre_link = link_status
  /\ io = NoIo
  /\ rxorig = NoWire
  /\ txrun = NoRun
  /\ rxrun = NoRun
  /\ enobufs = 0
  /\ phase = "open"
  /\ kind = "COMMAND"
  /\ rxbuf_live = TRUE
  /\ rx_port = FixedPort
  /\ tx_addr = PeerAddr
  /\ tx_port = FixedPort
  /\ bound_port = FixedPort
  /\ ledger = Opened
  /\ args_ok = TRUE

\* the same fault-injection ratio in both directions
Init ==
  /\ InitAny
  /\ tx_drop_ratio = rx_drop_ratio

(***************************************************************************)
(* Receive path: data_fd_cb, socket_read, process_rxbuf                    *)
(***************************************************************************)
Forwarded(evs) == SelectSeq(evs, LAMBDA e : e.ev = "recv_data")

\* data_fd_cb up to the call of process_rxbuf; orig is what the model knows
\* about where the datagram came from
data_fd_cb(script, rnd, orig) ==
  /\ pc = "idle"
  /\ registered > 0
  /\ LET r == socket_read(script, rnd, TRUE, link_status)
         genuine == r.ret < 0 /\ r.sys.last.n < 0 /\ ~ARSDK_WOULD_BLOCK(-r.ret)
     IN  /\ link_status' = r.link
         /\ rxbuf' = IF r.sys.last.n > 0 THEN r.sys.last.data ELSE rxbuf
         /\ IF r.ret > 0
            THEN /\ pc' = "process_rxbuf"
                 /\ rxlen' = r.ret
                 /\ rxorig' = orig
            ELSE /\ pc' = "idle"
                 /\ rxlen' = 0
                 /\ rxorig' = NoWire
         /\ rxoff' = U32(0)
         /\ op' = "data_fd_cb"
         /\ ret' = r.ret
         /\ events' = r.logs
         /\ pre_link' = link_status
         /\ io' = [r.sys EXCEPT !.last.data = << >>]
         /\ rxrun' = IF genuine
                     THEN Longer(rxrun, Logged(r.logs, "LOGE", "read") > 0,
                                 link_status = "OK" /\ r.link = "KO")
                     ELSE NoRun
         /\ txrun' = NoRun
         /\ wire' = NoWire
         /\ args_ok' = TRUE
  /\ UNCHANGED <<life, cfgv, tx_fail, enobufs, sockv>>

\* the socket is read: recvfrom returns a datagram of a peer, or fails
RecvPeer ==
  \E k \in 0..MaxEintr, rnd \in RandVals, r \in RecvResults(FewDatagrams, RecvErrnos) :
     data_fd_cb(Script(k, r), rnd, NoWire)

\* the same, for every datagram a peer can build and no failure
RecvCodec ==
  \E d \in PeerDatagrams : data_fd_cb(<< SysOk(Len(d), d) >>, 0, NoWire)

\* the datagram the transport sent last comes back to its own socket
RecvLoopback ==
  /\ wire.flying
  /\ data_fd_cb(<< SysOk(Len(wire.bytes), wire.bytes) >>, 0, wire)

\* socket_stop that leaves the fd in the event loop
socket_stop_Noop(reg) == reg

\* socket_stop: the registrations left once pomp_loop_remove took the fd (of
\* the receive-enabled data socket) out of the event loop
socket_stop(reg) == 0

\* LoopGoesOn that gives the loop up once the transport is stopped
LoopGoesOn_WhileStarted(off, len, st) == U32Lt(off, len) /\ st

\* while (rxoff < rxlen): st is self->started, which the loop does not read
LoopGoesOn(off, len, st) == U32Lt(off, len)

\* what the parent's receive-data sink does to the transport while it is
\* handed a frame: nothing ("return"), or a call of arsdk_transport_net_stop
SinkStops(sink) == sink = "stop" /\ started

\* one iteration of the while loop of process_rxbuf, the loop condition that
\* follows it included; sink is what the parent's sink does with the frame
process_rxbuf_iter(sink) ==
  /\ pc = "process_rxbuf"
  /\ Len(Forwarded(events)) < MaxForward
  /\ LET len32 == U32(rxlen)
         off == U32Nat(rxoff)
     IN  IF U32Gt(U32Add(rxoff, U32(ARSDK_FRAME_HEADER_SIZE)), len32) THEN
           /\ events' = Append(events, [ev |-> "LOGE", msg |-> "partial header"])
           /\ pc' = "idle"
           /\ UNCHANGED <<rxoff, started, registered>>
         ELSE
           LET headerbuf == Slice(rxbuf, off, ARSDK_FRAME_HEADER_SIZE)
               size == DecodeSize(headerbuf)
           IN  IF U32Lt(size, U32(ARSDK_FRAME_HEADER_SIZE))
                    \/ U32Gt(U32Add(rxoff, size), len32) THEN
                 /\ events' = Append(events, [ev |-> "LOGE", msg |-> "bad frame"])
                 /\ pc' = "idle"
                 /\ UNCHANGED <<rxoff, started, registered>>
               ELSE
                 LET payloadoff == U32Add(rxoff, U32(ARSDK_FRAME_HEADER_SIZE))
                     payloadlen == U32Sub(size, U32(ARSDK_FRAME_HEADER_SIZE))
                     frame == [type |-> headerbuf[1], id |-> headerbuf[2],
                               seq |-> headerbuf[3],
                               hoff |-> off, poff |-> U32Nat(payloadoff),
                               cdata |-> IF payloadlen = U32(0) THEN NULL ELSE "rxbuf",
                               len |-> payloadlen]
                     next == U32Add(payloadoff, payloadlen)
                 IN  /\ events' = events \o << [ev |-> "log_cmd", dir |-> "RX", frame |-> frame],
                                               [ev |-> "recv_data", frame |-> frame] >>
                                          \o (IF sink = "stop"
                                              THEN << [ev |-> "sink", msg |-> "stop"] >>
                                              ELSE << >>)
                                          \o (IF SinkStops(sink)
                                              THEN << [ev |-> "call", msg |-> "pomp_loop_remove"] >>
                                              ELSE << >>)
                     /\ rxoff' = next
                     /\ started' = IF SinkStops(sink) THEN FALSE ELSE started
                     /\ registered' = IF SinkStops(sink) THEN socket_stop(registered)
                                      ELSE registered
                     /\ pc' = IF LoopGoesOn(next, len32, started') THEN "process_rxbuf"
                              ELSE "idle"
  /\ UNCHANGED <<fd, qos_mode, cfgv, link_status, tx_fail, rxbuf, rxlen, rxorig, wire,
                 op, ret, pre_link, io, runs, sockv, args_ok>>

\* an iteration whose frame the sink takes and returns
process_rxbuf == process_rxbuf_iter("return")

\* an iteration during which the sink stops the transport
DispatchStop == process_rxbuf_iter("stop")

(***************************************************************************)
(* Send path: arsdk_transport_net_send_data                                *)
(***************************************************************************)
\* SendRes without the partial-write branch
SendRes_NoPartial(writelen, size) ==
  IF writelen < 0 THEN (IF writelen = -ENOBUFS THEN 0 ELSE writelen)
  ELSE 0

\* SendRes without res = 0 in the ENOBUFS branch
SendRes_EnobufsFails(writelen, size) ==
  IF writelen < 0 THEN writelen
  ELSE IF U32(writelen) # size THEN -EAGAIN
  ELSE 0

\* the code send_data returns for what socket_write returned
SendRes(writelen, size) ==
  IF writelen < 0 THEN (IF writelen = -ENOBUFS THEN 0 ELSE writelen)
  ELSE IF U32(writelen) # size THEN -EAGAIN
  ELSE 0

\* SendTxFail that resets on every non-negative result, partial writes included
SendTxFail_ResetOnPartial(writelen, size, txfail) ==
  IF writelen < 0 THEN (IF writelen = -ENOBUFS THEN txfail + 1 ELSE txfail)
  ELSE 0

\* self->tx_fail after the result handling
SendTxFail(writelen, size, txfail) ==
  IF writelen < 0 THEN (IF writelen = -ENOBUFS THEN txfail + 1 ELSE txfail)
  ELSE IF U32(writelen) # size THEN txfail
  ELSE IF txfail > 0 THEN 0
  ELSE txfail

\* SendLinkDown without the test of the link status
SendLinkDown_NoStatus(writelen, link) ==
  /\ writelen < 0
  /\ writelen # -ENOBUFS
  /\ ~ARSDK_WOULD_BLOCK(-writelen)

\* whether the result handling logs the sendmsg error and sets the link KO
SendLinkDown(writelen, link) ==
  /\ writelen < 0
  /\ writelen # -ENOBUFS
  /\ ~ARSDK_WOULD_BLOCK(-writelen)
  /\ link = "OK"

\* what the result handling logs
SendLogs(writelen, size, link, txfail) ==
  IF writelen < 0 THEN
    IF writelen = -ENOBUFS THEN << [ev |-> "LOGW", msg |-> "sendmsg"] >>
    ELSE IF SendLinkDown(writelen, link) THEN << [ev |-> "LOGE", msg |-> "sendmsg"] >>
    ELSE << >>
  ELSE IF U32(writelen) # size THEN << [ev |-> "LOGE", msg |-> "Partial write"] >>
  ELSE IF txfail > 0 THEN << [ev |-> "LOGI", msg |-> "succeed after failures"] >>
  ELSE << >>

\* ARSDK_RETURN_ERR_IF_FAILED on the arguments
SendArgsOk(header, payload, extra) ==
  /\ ~header.null
  /\ ~payload.null
  /\ (extra.len = 0 \/ extra.has_hdr)
  /\ (payload.len = 0 \/ payload.has_cdata)

\* the segments of the iov, concatenated
Iov(headerbuf, payload, extra) ==
  headerbuf \o (IF extra.len > 0 THEN extra.hdr ELSE << >>)
            \o (IF payload.len > 0 THEN payload.cdata ELSE << >>)

\* SendClosed that looks at the handle only
SendClosed_FdOnly(st, f) == f < 0

\* if (!self->started || self->data_sock.fd < 0) return -EPIPE
SendClosed(st, f) == ~st \/ f < 0

\* a call that returns before it reaches the socket
SendRejected(code) ==
  /\ ret' = code
  /\ events' = << >>
  /\ io' = NoIo
  /\ txrun' = NoRun
  /\ wire' = NoWire
  /\ UNCHANGED <<link_status, tx_fail, enobufs>>

send_data(header, payload, extra, k, o, rnd) ==
  /\ pc = "idle"
  /\ phase = "open"
  /\ op' = "send_data"
  /\ args_ok' = SendArgsOk(header, payload, extra)
  /\ pre_link' = link_status
  /\ rxrun' = NoRun
  /\ IF ~SendArgsOk(header, payload, extra) THEN SendRejected(-EINVAL)
     ELSE IF SendClosed(started, fd) THEN SendRejected(-EPIPE)
     ELSE
       LET size == FrameSize(extra.len, payload.len)
           headerbuf == EncodeHeader(header, size)
           iov == Iov(headerbuf, payload, extra)
           total == U32Nat(size)
           r == SendmsgResult(o, iov)
       IN    /\ r.errno = ENOBUFS => tx_fail < MaxTxFail
             /\ LET w == socket_write(Script(k, r), rnd, total)
                    writelen == w.ret
                    genuine == writelen < 0 /\ writelen # -ENOBUFS
                                 /\ ~ARSDK_WOULD_BLOCK(-writelen)
                    down == SendLinkDown(writelen, link_status)
                    logs == SendLogs(writelen, size, link_status, tx_fail)
                IN  /\ ret' = SendRes(writelen, size)
                    /\ tx_fail' = SendTxFail(writelen, size, tx_fail)
                    /\ link_status' = IF down THEN "KO" ELSE link_status
                    /\ events' = << [ev |-> "log_cmd", dir |-> "TX",
                                     headerbuf |-> headerbuf] >>
                                   \o w.logs
                                   \o logs
                    /\ io' = [w.sys EXCEPT !.last.data = << >>]
                    /\ wire' = IF w.sys.calls > 0 /\ w.sys.last.n >= 0
                               THEN [flying |-> TRUE, bytes |-> w.sys.last.data,
                                     header |-> header,
                                     payload |-> payload, extra |-> extra,
                                     to |-> TxTo(tx_addr, tx_port)]
                               ELSE NoWire
                    /\ txrun' = IF genuine /\ (txrun.k > 0 \/ link_status = "OK")
                                THEN Longer(txrun, Logged(logs, "LOGE", "sendmsg") > 0,
                                            link_status = "OK" /\ down)
                                ELSE NoRun
                    /\ enobufs' = IF writelen = -ENOBUFS THEN enobufs + 1
                                  ELSE IF writelen >= 0 /\ U32(writelen) = size THEN 0
                                  ELSE enobufs
  /\ UNCHANGED <<life, cfgv, rxv, sockv>>

\* arguments one of the ARSDK_RETURN_ERR_IF_FAILED checks rejects
BadArgs ==
  LET h == CHOOSE x \in Headers : TRUE
      p == CHOOSE x \in Payloads : x.has_cdata /\ x.len = 1
  IN  { <<NoHeader, p, NoExtra>>, <<h, NoPayload, NoExtra>>,
        <<h, p, [has_hdr |-> FALSE, hdr |-> << >>, len |-> 1]>>,
        <<h, [p EXCEPT !.has_cdata = FALSE, !.cdata = << >>], NoExtra>> }

\* arguments the checks accept, for the link-status specification: the
\* payload's content plays no part in the result handling
FewArgs ==
  LET h == CHOOSE x \in Headers : x.seq = 0
  IN  { <<h, CHOOSE x \in Payloads : x.len = 0, NoExtra>>,
        <<h, CHOOSE x \in Payloads : x.has_cdata /\ x.len = 1,
             CHOOSE x \in ExtraHdrs : x.has_hdr>> }

\* every accepted combination, for the codec specification
AllArgs ==
  { <<h, p, e>> : h \in Headers,
                  p \in { x \in Payloads : x.len = 0 \/ x.has_cdata },
                  e \in { x \in ExtraHdrs : x.len = 0 \/ x.has_hdr } }

SendData ==
  \/ \E a \in BadArgs : send_data(a[1], a[2], a[3], 0, [errno |-> 0, cut |-> 0], 0)
  \/ \E a \in FewArgs, k \in 0..MaxEintr, o \in SendOutcomes, rnd \in RandVals :
        send_data(a[1], a[2], a[3], k, o, rnd)

\* sends whose datagram reaches the network, whole or cut short
SendCodec ==
  \E a \in AllArgs, o \in { x \in SendOutcomes : x.errno = 0 } :
     send_data(a[1], a[2], a[3], 0, o, 0)

(***************************************************************************)
(* The parent sets the link status back to OK on traffic of its own        *)
(***************************************************************************)
ParentSetLinkOK ==
  /\ pc = "idle"
  /\ phase = "open"
  /\ link_status = "KO"
  /\ link_status' = "OK"
  /\ op' = "set_link_status"
  /\ ret' = 0
  /\ events' = << >>
  /\ pre_link' = link_status
  /\ io' = NoIo
  /\ txrun' = NoRun
  /\ rxrun' = NoRun
  /\ wire' = NoWire
  /\ args_ok' = TRUE
  /\ UNCHANGED <<life, cfgv, tx_fail, rxv, enobufs, sockv>>

(***************************************************************************)
(* Lifecycle: arsdk_transport_net_start, arsdk_transport_net_stop          *)
(***************************************************************************)
\* a call the operation makes to the system or to the event loop
Call(name) == [ev |-> "call", msg |-> name]

\* how many of the events evs are calls of name
Calls(evs, name) == Logged(evs, "call", name)

\* IPTOS_PREC_INTERNETCONTROL for a command socket, IPTOS_PREC_FLASHOVERRIDE
\* for a video socket, 0 for any other kind
Tos(k) == IF k = "COMMAND" THEN 192 ELSE IF k = "VIDEO" THEN 128 ELSE 0

\* socket_start: addres is what pomp_loop_add returns, tosres what setsockopt
\* (IP_TOS) returns (0 or -errno)
socket_start(addres, tosres) ==
  IF addres < 0 THEN
    [res |-> addres, added |-> 0, calls |-> << Call("pomp_loop_add") >>]
  ELSE IF qos_mode = 1 /\ Tos(kind) # 0 THEN
    [res |-> IF tosres < 0 THEN tosres ELSE 0, added |-> 1,
     calls |-> << Call("pomp_loop_add"), Call("setsockopt.IP_TOS") >>]
  ELSE
    [res |-> 0, added |-> 1, calls |-> << Call("pomp_loop_add") >>]

\* StartRejected that lets a started transport start again
StartRejected_Never(st) == FALSE

\* if (self->started) return -EBUSY
StartRejected(st) == st

arsdk_transport_net_start(addres, tosres) ==
  /\ pc = "idle"
  /\ phase = "open"
  /\ op' = "start"
  /\ IF StartRejected(started) THEN
       /\ ret' = -EBUSY
       /\ events' = << >>
       /\ UNCHANGED <<started, registered>>
     ELSE
       LET r == socket_start(addres, tosres)
       IN  IF r.res < 0
           THEN \* error: socket_stop
                /\ ret' = r.res
                /\ registered' = socket_stop(registered + r.added)
                /\ events' = r.calls \o << Call("pomp_loop_remove") >>
                /\ UNCHANGED started
           ELSE /\ ret' = 0
                /\ registered' = registered + r.added
                /\ events' = r.calls
                /\ started' = TRUE
  /\ pre_link' = link_status
  /\ io' = NoIo
  /\ txrun' = NoRun
  /\ rxrun' = NoRun
  /\ wire' = NoWire
  /\ args_ok' = TRUE
  /\ UNCHANGED <<fd, qos_mode, cfgv, link_status, tx_fail, rxv, enobufs, sockv>>

Start ==
  \E addres \in {0, -ENOMEM}, tosres \in {0, -EINVAL} :
     arsdk_transport_net_start(addres, tosres)

arsdk_transport_net_stop ==
  /\ pc = "idle"
  /\ phase = "open"
  /\ op' = "stop"
  /\ ret' = 0
  /\ IF ~started
     THEN /\ events' = << >>
          /\ UNCHANGED <<started, registered>>
     ELSE /\ registered' = socket_stop(registered)
          /\ events' = << Call("pomp_loop_remove") >>
          /\ started' = FALSE
  /\ pre_link' = link_status
  /\ io' = NoIo
  /\ txrun' = NoRun
  /\ rxrun' = NoRun
  /\ wire' = NoWire
  /\ args_ok' = TRUE
  /\ UNCHANGED <<fd, qos_mode, cfgv, link_status, tx_fail, rxv, enobufs, sockv>>

(***************************************************************************)
(* Construction and teardown: socket_setup, socket_cleanup,                *)
(* arsdk_transport_net_new, arsdk_transport_net_dispose                    *)
(***************************************************************************)
\* the descriptor socket() returns
NewFd == 3

\* the system calls of socket_setup that can fail, bind apart
SetupSteps == { "socket", "fcntl.F_SETFD", "fcntl.F_SETFL", "getsockname",
                "setsockopt.SO_RCVBUF", "getsockopt.SO_RCVBUF", "malloc",
                "setsockopt.SO_SNDBUF" }

\* the errno of each bind call the environment scripts (0: the call succeeds)
RECURSIVE BindScripts(_)
BindScripts(n) == IF n = 0 THEN { << >> }
                  ELSE { <<e>> \o t : e \in {0, EADDRINUSE, EACCES}, t \in BindScripts(n - 1) }

\* what the system does to the calls of socket_setup for the requested port
\* p: the step that fails (if any) with its errno, the results of the bind
\* calls, and the port the OS picks for port 0, which is never a port whose
\* bind just failed as in use
SetupEnvs(p) ==
  { e \in [fail : SetupSteps \cup {"none"}, errno : {EACCES}, bind : BindScripts(MaxBind),
           eph : EphemeralPorts] :
       e.bind[1] = EADDRINUSE => e.eph # p }

\* BindRetry that retries whatever the port is
BindRetry_AnyPort(res, sin_port) == res = -EADDRINUSE

\* if (res == -EADDRINUSE && addr.sin_port != 0)
BindRetry(res, sin_port) == res = -EADDRINUSE /\ sin_port # 0

\* retry_bind: the bind calls from the i-th on, for addr.sin_port = sin_port
RECURSIVE BindLoop(_, _, _)
BindLoop(results, i, sin_port) ==
  IF results[i] # 0 /\ i < Len(results) /\ BindRetry(-results[i], sin_port)
  THEN BindLoop(results, i + 1, 0)
  ELSE [calls |-> i, errno |-> results[i], sin_port |-> sin_port]

\* SetupCleanup that leaves the descriptor open
SetupCleanup_NoClose(f, buf) == [fd |-> f, closes |-> 0, frees |-> IF buf THEN 1 ELSE 0]

\* SetupCleanup that closes the descriptor and keeps its number in sock->fd
SetupCleanup_KeepsFd(f, buf) ==
  [fd |-> f, closes |-> IF f >= 0 THEN 1 ELSE 0, frees |-> IF buf THEN 1 ELSE 0]

\* the error label of socket_setup: free(sock->rxbuf), and close the
\* descriptor and set sock->fd = -1 if it is open
SetupCleanup(f, buf) ==
  [fd |-> IF f >= 0 THEN -1 ELSE f, closes |-> IF f >= 0 THEN 1 ELSE 0,
   frees |-> IF buf THEN 1 ELSE 0]

\* socket_setup leaving through its error label with res, after calls
SetupFailed(res, f, buf, port, calls) ==
  LET c == SetupCleanup(f, buf)
  IN  [res |-> res, fd |-> c.fd, buf |-> FALSE, rx_port |-> port, bound |-> 0,
       calls |-> calls \o (IF c.frees > 0 THEN << Call("free") >> ELSE << >>)
                       \o (IF c.closes > 0 THEN << Call("close") >> ELSE << >>),
       opened |-> IF f >= 0 THEN 1 ELSE 0, closed |-> c.closes,
       alloc |-> IF buf THEN 1 ELSE 0, freed |-> c.frees, binds |-> Calls(calls, "bind")]

\* socket_setup of a socket with rx and tx enabled: p is *sock->rxport
socket_setup(p, env) ==
  LET f == IF env.fail = "socket" THEN -1 ELSE NewFd
      c_socket == << Call("socket") >>
      c_flags == c_socket \o (IF env.fail = "fcntl.F_SETFD" THEN << Call("fcntl.F_SETFD") >>
                              ELSE << Call("fcntl.F_SETFD"), Call("fcntl.F_SETFL") >>)
      b == BindLoop(env.bind, 1, htons(p))
      c_bind == c_flags \o [i \in 1..b.calls |->
                              [ev |-> "call", msg |-> "bind",
                               sin_port |-> IF i = 1 THEN htons(p) ELSE 0,
                               errno |-> env.bind[i]]]
      bound == IF ntohs(b.sin_port) # 0 THEN ntohs(b.sin_port) ELSE env.eph
      newrxport == ntohs(htons(bound))
      c_name == c_bind \o << Call("getsockname") >>
      c_setrcv == c_name \o << Call("setsockopt.SO_RCVBUF") >>
      c_getrcv == c_setrcv \o << Call("getsockopt.SO_RCVBUF") >>
      c_malloc == c_getrcv \o << Call("malloc") >>
      c_setsnd == c_malloc \o << Call("setsockopt.SO_SNDBUF") >>
  IN  IF f < 0 THEN SetupFailed(-env.errno, f, FALSE, p, c_socket)
      ELSE IF env.fail \in {"fcntl.F_SETFD", "fcntl.F_SETFL"}
        THEN SetupFailed(-env.errno, f, FALSE, p, c_flags)
      ELSE IF b.errno # 0 THEN SetupFailed(-b.errno, f, FALSE, p, c_bind)
      ELSE IF env.fail = "getsockname" THEN SetupFailed(-env.errno, f, FALSE, p, c_name)
      ELSE IF env.fail = "setsockopt.SO_RCVBUF"
        THEN SetupFailed(-env.errno, f, FALSE, newrxport, c_setrcv)
      ELSE IF env.fail = "getsockopt.SO_RCVBUF"
        THEN SetupFailed(-env.errno, f, FALSE, newrxport, c_getrcv)
      ELSE IF env.fail = "malloc" THEN SetupFailed(-ENOMEM, f, FALSE, newrxport, c_malloc)
      ELSE IF env.fail = "setsockopt.SO_SNDBUF"
        THEN SetupFailed(-env.errno, f, TRUE, newrxport, c_setsnd)
      ELSE [res |-> 0, fd |-> f, buf |-> TRUE, rx_port |-> newrxport, bound |-> bound,
            calls |-> c_setsnd \o << [ev |-> "call", msg |-> "socketcb", fd |-> f,
                                      kind |-> "COMMAND"] >>,
            opened |-> 1, closed |-> 0, alloc |-> 1, freed |-> 0, binds |-> b.calls]

\* CleanupStops that never takes the fd out of the event loop
CleanupStops_Never(st) == FALSE

\* if (self->started) socket_stop(self, sock)
CleanupStops(st) == st

\* socket_cleanup of the data socket: st is self->started, f the descriptor,
\* buf whether rxbuf is allocated, reg the registrations of f
socket_cleanup(st, f, buf, reg) ==
  LET stops == f >= 0 /\ CleanupStops(st)
      left == IF stops THEN socket_stop(reg) ELSE reg
  IN  [fd |-> IF f >= 0 THEN -1 ELSE f,
       registered |-> left,
       closes |-> IF f >= 0 THEN 1 ELSE 0,
       regclosed |-> IF f >= 0 /\ left > 0 THEN 1 ELSE 0,
       frees |-> IF buf THEN 1 ELSE 0,
       calls |-> (IF stops THEN << Call("pomp_loop_remove") >> ELSE << >>)
                   \o (IF f >= 0 THEN << Call("close") >> ELSE << >>)
                   \o (IF buf THEN << Call("free") >> ELSE << >>)]

\* arsdk_transport_destroy of the base object: it calls the dispose operation
\* of the transport, which cleans the data socket up and frees the object
arsdk_transport_destroy(st, f, buf, reg) == socket_cleanup(st, f, buf, reg)

\* the ledger after a socket_cleanup
Cleaned(l, c) ==
  [l EXCEPT !.closed = @ + c.closes, !.regclosed = @ + c.regclosed, !.freed = @ + c.frees]

\* the configurations arsdk_transport_net_new and update_cfg are given
Cfgs == [qos_mode : {0, 1}, rx_port : ConfiguredPorts,
         tx_addr : {PeerAddr}, tx_port : {FixedPort}]

\* the configurations that name any of the peers
TxCfgs == [qos_mode : {0, 1}, rx_port : {FixedPort, 49152},
           tx_addr : TxAddrs, tx_port : TxPorts]

\* arsdk_transport_net_new with valid arguments; on error the base object is
\* destroyed, which disposes of the transport
arsdk_transport_net_new(cfg, env) ==
  /\ phase = "none"
  /\ op' = "new"
  /\ LET s == socket_setup(cfg.rx_port, env)
         l == [opened |-> s.opened, closed |-> s.closed, regclosed |-> 0,
               alloc |-> s.alloc, freed |-> s.freed,
               socketcb |-> Calls(s.calls, "socketcb"),
               ret_obj |-> IF s.res < 0 THEN NULL ELSE "self"]
     IN  IF s.res < 0 THEN
           LET c == arsdk_transport_destroy(started, s.fd, s.buf, registered)
           IN  /\ phase' = "gone"
               /\ ret' = s.res
               /\ fd' = c.fd
               /\ registered' = c.registered
               /\ rxbuf_live' = FALSE
               /\ events' = s.calls \o << Call("arsdk_transport_destroy") >> \o c.calls
               /\ ledger' = Cleaned(l, c)
               /\ rx_port' = s.rx_port
               /\ bound_port' = s.bound
         ELSE  /\ phase' = "open"
               /\ ret' = 0
               /\ fd' = s.fd
               /\ registered' = registered
               /\ rxbuf_live' = s.buf
               /\ events' = s.calls
               /\ ledger' = l
               /\ rx_port' = s.rx_port
               /\ bound_port' = s.bound
  /\ qos_mode' = cfg.qos_mode
  /\ tx_addr' = cfg.tx_addr
  /\ tx_port' = cfg.tx_port
  /\ kind' = "COMMAND"
  /\ pre_link' = link_status
  /\ io' = NoIo
  /\ args_ok' = TRUE
  /\ UNCHANGED <<started, cfgv, link_status, tx_fail, rxv, wire, runs>>

New ==
  \E cfg \in Cfgs : \E env \in SetupEnvs(cfg.rx_port) : arsdk_transport_net_new(cfg, env)

arsdk_transport_net_dispose ==
  /\ pc = "idle"
  /\ phase = "open"
  /\ op' = "dispose"
  /\ ret' = 0
  /\ LET c == socket_cleanup(started, fd, rxbuf_live, registered)
     IN  /\ fd' = c.fd
         /\ registered' = c.registered
         /\ rxbuf_live' = FALSE
         /\ events' = c.calls
         /\ ledger' = Cleaned(ledger, c)
  /\ phase' = "gone"
  /\ bound_port' = 0
  /\ pre_link' = link_status
  /\ io' = NoIo
  /\ txrun' = NoRun
  /\ rxrun' = NoRun
  /\ wire' = NoWire
  /\ args_ok' = TRUE
  /\ UNCHANGED <<started, qos_mode, cfgv, link_status, tx_fail, rxv, enobufs, kind,
                 rx_port, tx_addr, tx_port>>

\* self->cfg as one structure
SelfCfg == [qos_mode |-> qos_mode, rx_port |-> rx_port,
            tx_addr |-> tx_addr, tx_port |-> tx_port]

\* an argument an operation is called with, or a value it writes through an
\* output pointer
In(c) == [ev |-> "in", msg |-> "cfg", cfg |-> c]
Out(c) == [ev |-> "out", msg |-> "cfg", cfg |-> c]

\* an update that takes everything but the peer from cfg
UpdatedCfg_KeepsTx(cur, cfg) == [cfg EXCEPT !.tx_addr = cur.tx_addr, !.tx_port = cur.tx_port]

\* self->cfg = *cfg
UpdatedCfg(cur, cfg) == cfg

\* arsdk_transport_net_update_cfg; null: the cfg pointer is NULL
arsdk_transport_net_update_cfg(cfg, null) ==
  /\ pc = "idle"
  /\ phase = "open"
  /\ op' = "update_cfg"
  /\ IF null
     THEN /\ ret' = -EINVAL
          /\ events' = << >>
          /\ UNCHANGED <<qos_mode, rx_port, tx_addr, tx_port>>
     ELSE LET c == UpdatedCfg(SelfCfg, cfg)
          IN  /\ ret' = 0
              /\ events' = << In(cfg) >>
              /\ qos_mode' = c.qos_mode
              /\ rx_port' = c.rx_port
              /\ tx_addr' = c.tx_addr
              /\ tx_port' = c.tx_port
  /\ pre_link' = link_status
  /\ io' = NoIo
  /\ txrun' = NoRun
  /\ rxrun' = NoRun
  /\ wire' = NoWire
  /\ args_ok' = ~null
  /\ UNCHANGED <<started, fd, registered, cfgv, link_status, tx_fail, rxv, enobufs,
                 phase, kind, rxbuf_live, bound_port, ledger>>

UpdateCfg == \E cfg \in Cfgs : arsdk_transport_net_update_cfg(cfg, FALSE)

\* an update that leaves the rx port as it is
UpdateQos ==
  \E cfg \in { c \in Cfgs : c.rx_port = rx_port } : arsdk_transport_net_update_cfg(cfg, FALSE)

\* an update that names any peer and any rx port, or passes no configuration
UpdateTx ==
  \E cfg \in TxCfgs, null \in BOOLEAN : arsdk_transport_net_update_cfg(cfg, null)

\* arsdk_transport_net_get_cfg; null: the cfg pointer is NULL
arsdk_transport_net_get_cfg(null) ==
  /\ pc = "idle"
  /\ phase = "open"
  /\ op' = "get_cfg"
  /\ ret' = IF null THEN -EINVAL ELSE 0
  /\ events' = IF null THEN << >> ELSE << Out(SelfCfg) >>
  /\ pre_link' = link_status
  /\ io' = NoIo
  /\ txrun' = NoRun
  /\ rxrun' = NoRun
  /\ wire' = NoWire
  /\ args_ok' = ~null
  /\ UNCHANGED <<life, cfgv, link_status, tx_fail, rxv, enobufs, sockv>>

GetCfg == \E null \in BOOLEAN : arsdk_transport_net_get_cfg(null)

\* the traffic of the lifecycle specifications: a send with a NULL header, a
\* send of an empty payload that the socket takes whole or refuses, and a
\* read that returns one frame, would block or fails
SendLife ==
  \E a \in { x \in BadArgs \cup FewArgs :
                 x[3] = NoExtra /\ ~x[2].null /\ (x[1].null \/ x[2].len = 0) },
     o \in { x \in SendOutcomes : x.cut = 0 /\ x.errno \in {0, 101} } :
     send_data(a[1], a[2], a[3], 0, o, 0)

RecvLife ==
  \E r \in RecvResults({ Chunk(2, <<7, 0, 0, 0>>, 0) }, { EAGAIN, 101 }) :
     data_fd_cb(<< r >>, 0, NoWire)

\* the state before arsdk_transport_net_new: no object, no socket
InitLife ==
  /\ started = FALSE
  /\ fd = -1
  /\ registered = 0
  /\ qos_mode = 0
  /\ link_status \in {"OK", "KO"}
  /\ tx_fail = 0
  /\ rx_drop_ratio = 0
  /\ tx_drop_ratio = 0
  /\ rxbuf = << >>
  /\ rxlen = 0
  /\ rxoff = U32(0)
  /\ pc = "idle"
  /\ wire = NoWire
  /\ op = "none"
  /\ ret = 0
  /\ events = << >>
  /\ pre_link = link_status
  /\ io = NoIo
  /\ rxorig = NoWire
  /\ txrun = NoRun
  /\ rxrun = NoRun
  /\ enobufs = 0
  /\ phase = "none"
  /\ kind = "NONE"
  /\ rxbuf_live = FALSE
  /\ rx_port = 0
  /\ tx_addr = U32(0)
  /\ tx_port = 0
  /\ bound_port = 0
  /\ ledger = Nothing
  /\ args_ok = TRUE

(***************************************************************************)
(* Specification                                                           *)
(***************************************************************************)
Next ==
  \/ Start
  \/ arsdk_transport_net_stop
  \/ SendData
  \/ RecvPeer
  \/ process_rxbuf
  \/ ParentSetLinkOK

Spec == Init /\ [][Next]_vars

\* the codec alone: no fault injection, the link OK
InitCodec ==
  /\ Init
  /\ rx_drop_ratio = 0
  /\ link_status = "OK"

\* decoding what a peer sends
NextDecode ==
  \/ Start
  \/ RecvCodec
  \/ process_rxbuf

SpecDecode == InitCodec /\ [][NextDecode]_vars

\* decoding what a peer sends while the parent's sink may stop the transport
NextDispatch ==
  \/ Start
  \/ RecvCodec
  \/ process_rxbuf
  \/ DispatchStop

SpecDispatch == InitCodec /\ [][NextDispatch]_vars

\* decoding what send_data sent
NextRoundTrip ==
  \/ Start
  \/ SendCodec
  \/ RecvLoopback
  \/ process_rxbuf

SpecRoundTrip == InitCodec /\ [][NextRoundTrip]_vars

\* fault injection: each direction dropping nothing or everything
InitDrop ==
  /\ InitAny
  /\ rx_drop_ratio \in {0, 100}
  /\ tx_drop_ratio \in {0, 100}
  /\ link_status = "OK"

SpecDrop == InitDrop /\ [][Next]_vars

\* the link status under every operation, configuration updates included
NextFrame ==
  \/ Next
  \/ UpdateQos

SpecFrame == Init /\ [][NextFrame]_vars

\* the whole life of a transport, from before its construction to its disposal
NextLife ==
  \/ New
  \/ Start
  \/ arsdk_transport_net_stop
  \/ UpdateCfg
  \/ SendLife
  \/ RecvLife
  \/ process_rxbuf
  \/ arsdk_transport_net_dispose

SpecLife == InitLife /\ [][NextLife]_vars

\* the kinds of socket socket_setup can be asked for
SocketKinds == {"COMMAND", "VIDEO", "OTHER"}

\* a transport whose socket was set up with any kind and any QoS mode:
\* socket_start's switch on sock->kind, past the command kind that
\* arsdk_transport_net_new asks for
InitKinds ==
  /\ started = FALSE
  /\ fd = NewFd
  /\ registered = 0
  /\ qos_mode \in {0, 1}
  /\ link_status = "OK"
  /\ tx_fail = 0
  /\ rx_drop_ratio = 0
  /\ tx_drop_ratio = 0
  /\ rxbuf = << >>
  /\ rxlen = 0
  /\ rxoff = U32(0)
  /\ pc = "idle"
  /\ wire = NoWire
  /\ op = "new"
  /\ ret = 0
  /\ events = << >>
  /\ pre_link = link_status
  /\ io = NoIo
  /\ rxorig = NoWire
  /\ txrun = NoRun
  /\ rxrun = NoRun
  /\ enobufs = 0
  /\ phase = "open"
  /\ kind \in SocketKinds
  /\ rxbuf_live = TRUE
  /\ rx_port = FixedPort
  /\ tx_addr = PeerAddr
  /\ tx_port = FixedPort
  /\ bound_port = FixedPort
  /\ ledger = Opened
  /\ args_ok = TRUE

NextKinds ==
  \/ Start
  \/ arsdk_transport_net_stop
  \/ UpdateQos
  \/ SendLife
  \/ RecvLife
  \/ process_rxbuf
  \/ arsdk_transport_net_dispose

SpecKinds == InitKinds /\ [][NextKinds]_vars

\* a transport whose configuration is read and updated between sends
NextCfg ==
  \/ Start
  \/ arsdk_transport_net_stop
  \/ UpdateTx
  \/ GetCfg
  \/ SendLife

SpecCfg == InitCodec /\ [][NextCfg]_vars

(***************************************************************************)
(* Properties of the frame codec                                           *)
(***************************************************************************)
\* the frames handed to arsdk_transport_recv_data so far, in order
Frames == [i \in 1..Len(Forwarded(events)) |-> Forwarded(events)[i].frame]

\* the payload bytes of a frame whose view lies inside the buffer
PayloadBytes(f) == Slice(rxbuf, f.poff, f.len[2])

\* the view of frame f lies inside bytes [0, n) of the buffer
InBuffer(f, n) ==
  /\ f.hoff + ARSDK_FRAME_HEADER_SIZE <= n
  /\ f.len[1] = 0
  /\ f.poff + f.len[2] <= n

\* C1: every (header, payload) pair process_rxbuf forwards has its 7 header
\* bytes and its payload view inside bytes [0, rxlen) of the receive buffer,
\* at offset 0 and at any later offset.
C1_DecoderBounds ==
  op = "data_fd_cb" => \A i \in 1..Len(Frames) : InBuffer(Frames[i], rxlen)

\* C2: the decode loop terminates: an iteration that forwards a frame moves
\* the read offset strictly forward, and one datagram of rxlen bytes yields at
\* most rxlen / 7 frames.
C2_DecoderTermination ==
  [][ /\ (pc = "process_rxbuf" /\ rxoff' # rxoff) => U32Lt(rxoff, rxoff')
      /\ op' = "data_fd_cb" => ARSDK_FRAME_HEADER_SIZE * Len(Forwarded(events')) <= rxlen' ]_vars

\* the well-formed back-to-back frames of the n-byte buffer buf from offset
\* off on, up to the first truncated header or malformed size
RECURSIVE WellFormedPrefix(_, _, _)
WellFormedPrefix(buf, n, off) ==
  IF off >= n \/ off + ARSDK_FRAME_HEADER_SIZE > n THEN << >>
  ELSE LET hb == Slice(buf, off, ARSDK_FRAME_HEADER_SIZE)
           size == DecodeSize(hb)
       IN  IF size[1] # 0 \/ size[2] < ARSDK_FRAME_HEADER_SIZE \/ off + size[2] > n
           THEN << >>
           ELSE << [type |-> hb[1], id |-> hb[2], seq |-> hb[3], hoff |-> off,
                    poff |-> off + ARSDK_FRAME_HEADER_SIZE,
                    cdata |-> IF size[2] = ARSDK_FRAME_HEADER_SIZE THEN NULL ELSE "rxbuf",
                    len |-> U32(size[2] - ARSDK_FRAME_HEADER_SIZE)] >>
                  \o WellFormedPrefix(buf, n, off + size[2])

IsPrefix(a, b) == Len(a) <= Len(b) /\ SubSeq(b, 1, Len(a)) = a

\* every frame is logged, then forwarded, and nothing else is forwarded
LoggedThenForwarded(evs) ==
  \A i \in 1..Len(evs) :
     /\ evs[i].ev = "recv_data" =>
          i > 1 /\ evs[i - 1].ev = "log_cmd" /\ evs[i - 1].frame = evs[i].frame
     /\ evs[i].ev = "log_cmd" =>
          i < Len(evs) /\ evs[i + 1].ev = "recv_data"

\* C4: the frames forwarded for a datagram are exactly its longest prefix of
\* well-formed back-to-back frames, in wire order, each logged before it is
\* forwarded; nothing after a truncated header or a malformed size is
\* forwarded; sizes 10, 7, 23 give payload lengths 3, 0, 16.
C4_FailFastPrefix ==
  (op = "data_fd_cb" /\ ret > 0) =>
     LET ref == WellFormedPrefix(rxbuf, rxlen, 0)
     IN  /\ IsPrefix(Frames, ref)
         /\ pc = "idle" => Frames = ref
         /\ LoggedThenForwarded(events)
         /\ (pc = "idle" /\ rxbuf = Packed_10_7_23) =>
               [i \in 1..Len(Frames) |-> Frames[i].len] = << U32(3), U32(0), U32(16) >>

\* the datagram being decoded is what send_data sent, whole, with no extra header
RoundTripCase ==
  /\ op = "data_fd_cb"
  /\ pc = "idle"
  /\ ret > 0
  /\ rxorig.flying
  /\ rxorig.extra.len = 0
  /\ Len(rxorig.bytes) = ARSDK_FRAME_HEADER_SIZE + rxorig.payload.len

\* C3: the bytes send_data hands to the socket for a header and a payload (no
\* extra header) decode to exactly one frame with the same type, id and seq
\* and the same payload bytes; an empty payload is forwarded as an empty
\* payload.
C3_RoundTrip ==
  RoundTripCase =>
     /\ Len(Frames) = 1
     /\ Frames[1].type = rxorig.header.type
     /\ Frames[1].id = rxorig.header.id
     /\ Frames[1].seq = rxorig.header.seq
     /\ Frames[1].len = U32(rxorig.payload.len)
     /\ InBuffer(Frames[1], rxlen)
     /\ PayloadBytes(Frames[1]) = rxorig.payload.cdata
     /\ (rxorig.payload.len = 0 => Frames[1].cdata = NULL)

C3_Witness ==
  /\ RoundTripCase
  /\ rxorig.payload.len = MaxPayload
  /\ rxorig.header.seq = 255
  /\ Len(Frames) = 1

(***************************************************************************)
(* Properties of the send path                                             *)
(***************************************************************************)
\* the last operation was a send_data call whose sendmsg took part of the frame
PartialWritten ==
  /\ op = "send_data"
  /\ wire.flying
  /\ Len(wire.bytes) < ARSDK_FRAME_HEADER_SIZE + wire.extra.len + wire.payload.len

\* C5: when the write returns a non-negative count smaller than the frame
\* size (7 + extra header + payload), send_data returns a negative code,
\* whatever the link status is.
C5_PartialWrite == PartialWritten => ret < 0

C5_Witness == PartialWritten /\ pre_link = "KO" /\ io.last.n > 0 /\ ret < 0

\* C6: in a run of consecutive send_data calls, begun with the link OK, whose
\* write fails with an error that is neither would-block nor ENOBUFS, there is
\* exactly one OK -> KO transition and exactly one logged error, and every
\* call returns its negative error code.
C6_SendSuppression ==
  txrun.k >= 1 =>
     /\ txrun.trans = 1
     /\ txrun.logs = 1
     /\ op = "send_data"
     /\ ret = -io.last.errno
     /\ ret < 0
     /\ link_status = "KO"
     /\ Logged(events, "LOGE", "sendmsg") = (IF txrun.k = 1 THEN 1 ELSE 0)

C6_Witness == txrun.k >= 2 /\ txrun.logs = 1 /\ pre_link = "KO"

\* the step is a send_data call whose write ended with the errno e
SendFailedWith(e) ==
  op' = "send_data" /\ io'.calls > 0 /\ io'.last.n < 0 /\ io'.last.errno = e

\* C7: when the write fails with ENOBUFS, send_data returns 0, adds exactly 1
\* to tx_fail, logs one warning, makes no further write and leaves the link
\* status as it was.
C7_SendBufferFull ==
  [][ SendFailedWith(ENOBUFS) =>
        /\ ret' = 0
        /\ tx_fail' = tx_fail + 1
        /\ Logged(events', "LOGW", "sendmsg") = 1
        /\ Logged(events', "LOGE", "sendmsg") = 0
        /\ link_status' = link_status
        /\ io'.calls = io'.eintrs + 1 ]_vars

C7_Witness ==
  /\ op = "send_data"
  /\ io.calls > 0 /\ io.last.n < 0 /\ io.last.errno = ENOBUFS
  /\ ret = 0
  /\ tx_fail = MaxTxFail
  /\ link_status = "OK"

\* the step is a send_data call whose write returned the full frame size
SendWroteAll ==
  /\ op' = "send_data"
  /\ \/ Logged(events', "LOGI", "tx drop") = 1
     \/ /\ wire'.flying
        /\ Len(wire'.bytes) = ARSDK_FRAME_HEADER_SIZE + wire'.extra.len + wire'.payload.len

\* C8: tx_fail is the number of ENOBUFS results since the last write that
\* returned the full frame size; such a write, when tx_fail > 0, logs one
\* recovery message and resets tx_fail to 0; every other outcome leaves
\* tx_fail as it was; tx_fail is never negative.
C8_FailureCounter ==
  [][ /\ tx_fail' = enobufs'
      /\ tx_fail' >= 0
      /\ IF SendWroteAll THEN
           /\ tx_fail' = 0
           /\ Logged(events', "LOGI", "succeed after failures") = (IF tx_fail > 0 THEN 1 ELSE 0)
         ELSE IF SendFailedWith(ENOBUFS) THEN
           tx_fail' = tx_fail + 1
         ELSE
           /\ tx_fail' = tx_fail
           /\ op' = "send_data" => Logged(events', "LOGI", "succeed after failures") = 0 ]_vars

C8_Witness ==
  /\ op = "send_data"
  /\ Logged(events, "LOGI", "succeed after failures") = 1
  /\ tx_fail = 0
  /\ io.calls > 0

(***************************************************************************)
(* Properties of the receive path                                          *)
(***************************************************************************)
\* C9: an interrupted recvfrom (EINTR) is repeated by socket_read and an
\* interrupted sendmsg by socket_write: neither loop ends on an interrupted
\* call, the interruption is not returned, not logged as an error and does not
\* change the link status.
C9_EintrRetried ==
  (op \in {"data_fd_cb", "send_data"} /\ io.calls > 0 /\ io.eintrs > 0) =>
     /\ ~(io.last.n < 0 /\ io.last.errno = EINTR)
     /\ ret # -EINTR
     /\ io.calls = io.eintrs + 1

\* the read callback's receive failed
ReadFailed == op = "data_fd_cb" /\ io.calls > 0 /\ io.last.n < 0

\* C10: a failing receive of the read callback that is not would-block sets
\* the link KO and logs once when the link was OK, and logs nothing when it
\* was KO; a run of such failures has at most one OK -> KO transition and one
\* log line; a would-block failure is never logged and leaves the status.
C10_ReadLinkStatus ==
  /\ ReadFailed =>
       /\ ret = -io.last.errno
       /\ IF ARSDK_WOULD_BLOCK(io.last.errno) THEN
            /\ Logged(events, "LOGE", "read") = 0
            /\ link_status = pre_link
          ELSE
            /\ link_status = "KO"
            /\ Logged(events, "LOGE", "read") = (IF pre_link = "OK" THEN 1 ELSE 0)
  /\ rxrun.trans <= 1
  /\ rxrun.logs <= 1
  /\ rxrun.logs = rxrun.trans

C10_Witness ==
  /\ ReadFailed
  /\ rxrun.k >= 2
  /\ rxrun.logs = 1
  /\ pre_link = "KO"
  /\ events = << >>

(***************************************************************************)
(* Properties of the lifecycle                                             *)
(***************************************************************************)
\* C11: start on a started transport returns -EBUSY and changes nothing: the
\* fd stays registered exactly once, started stays set, no pomp_loop_add and
\* no setsockopt is made, and a send that follows still reaches the socket.
C11_StartTwice ==
  [][ /\ (started /\ op' = "start") =>
            /\ ret' = -EBUSY
            /\ started'
            /\ registered = 1
            /\ registered' = 1
            /\ events' = << >>
            /\ UNCHANGED <<fd, qos_mode, cfgv, link_status, tx_fail, sockv>>
      /\ (op = "start" /\ ret = -EBUSY /\ op' = "send_data" /\ args_ok') =>
            /\ ret' # -EPIPE
            /\ io'.calls = 1 ]_vars

C11_Witness ==
  /\ op = "start"
  /\ ret = -EBUSY
  /\ started
  /\ registered = 1
  /\ events = << >>

\* a start that was attempted and failed
StartFailed == op = "start" /\ ret < 0 /\ ret # -EBUSY

\* C12: when pomp_loop_add fails (-ENOMEM here), or succeeds and setsockopt
\* of a non-zero IP_TOS fails (-EINVAL here), start returns that error, the fd
\* is not in the event loop afterwards and the transport is not started: a
\* send that follows returns -EPIPE and a start that follows is attempted
\* again; with qos_mode = 1 and a kind whose marking is 0, setsockopt is not
\* called and start succeeds when the registration does.
C12_StartFailure ==
  [][ /\ (op' = "start" /\ ~started /\ ret' # 0) =>
            /\ ret' \in {-ENOMEM, -EINVAL}
            /\ ~started'
            /\ registered' = 0
            /\ fd' = fd
            /\ Calls(events', "pomp_loop_add") = 1
            /\ ret' = -EINVAL =>
                  /\ qos_mode = 1
                  /\ Tos(kind) # 0
                  /\ Calls(events', "setsockopt.IP_TOS") = 1
      /\ (StartFailed /\ op' = "send_data" /\ args_ok') => ret' = -EPIPE
      /\ (StartFailed /\ op' = "start") =>
            /\ ret' # -EBUSY
            /\ Calls(events', "pomp_loop_add") = 1
      /\ (op' = "start" /\ ~started /\ qos_mode = 1 /\ Tos(kind) = 0) =>
            /\ Calls(events', "setsockopt.IP_TOS") = 0
            /\ ret' \in {0, -ENOMEM}
            /\ ret' = 0 => (started' /\ registered' = 1) ]_vars

C12_Witness ==
  /\ StartFailed
  /\ ret = -EINVAL
  /\ Calls(events, "pomp_loop_add") = 1
  /\ Calls(events, "setsockopt.IP_TOS") = 1
  /\ registered = 0
  /\ ~started

\* C13: a send_data with valid arguments on a transport that is not started
\* returns -EPIPE, logs no frame, makes no sendmsg and leaves the link status
\* and tx_fail as they were; on a started transport, after a stop and a new
\* start as well, it reaches the socket.
C13_SendClosed ==
  [][ /\ (op' = "send_data" /\ args_ok' /\ ~started) =>
            /\ ret' = -EPIPE
            /\ events' = << >>
            /\ io'.calls = 0
            /\ ~wire'.flying
            /\ link_status' = link_status
            /\ tx_fail' = tx_fail
      /\ (op' = "send_data" /\ args_ok' /\ started) =>
            /\ ret' # -EPIPE
            /\ Len(events') >= 1
            /\ events'[1].ev = "log_cmd"
            /\ io'.calls = 1 ]_vars

C13_Witness ==
  /\ op = "send_data"
  /\ args_ok
  /\ ~started
  /\ ret = -EPIPE
  /\ events = << >>

(***************************************************************************)
(* Properties of construction and teardown                                 *)
(***************************************************************************)
\* where, in the events of a failed arsdk_transport_net_new, the base object
\* is destroyed; past the end of the events of a successful one
DestroyedAt ==
  IF Calls(events, "arsdk_transport_destroy") = 0 THEN Len(events) + 1
  ELSE CHOOSE i \in 1..Len(events) : events[i].msg = "arsdk_transport_destroy"

\* what socket_setup did, and what the disposal that follows a failure did
SetupPart == SubSeq(events, 1, DestroyedAt - 1)

DisposePart == SubSeq(events, DestroyedAt + 1, Len(events))

\* the call of socket_setup that failed: the last one before its error label
FailedCall ==
  LET made == SelectSeq(SetupPart, LAMBDA e : e.msg \notin {"free", "close"})
  IN  made[Len(made)].msg

\* C14: when a step of socket_setup fails, socket_setup returns a negative
\* code, closes the descriptor it opened and sets it to -1, leaves no buffer
\* allocated and does not call socketcb, and arsdk_transport_net_new returns
\* that code with *ret_obj NULL; on success socketcb is called exactly once,
\* last, with the new descriptor and the command kind, the transport not yet
\* started.
C14_OpenFailure ==
  op = "new" =>
    IF ret # 0 THEN
      /\ ret < 0
      /\ ret = (IF FailedCall = "malloc" THEN -ENOMEM
                ELSE IF FailedCall = "bind" THEN ret ELSE -EACCES)
      /\ FailedCall = "bind" => ret \in {-EADDRINUSE, -EACCES}
      /\ fd = -1
      /\ Calls(SetupPart, "close") = Calls(SetupPart, "socket") - (IF FailedCall = "socket" THEN 1 ELSE 0)
      /\ Calls(SetupPart, "free") = Calls(SetupPart, "malloc") - (IF FailedCall = "malloc" THEN 1 ELSE 0)
      /\ ~rxbuf_live
      /\ Calls(events, "socketcb") = 0
      /\ ledger.socketcb = 0
      /\ ledger.ret_obj = NULL
      /\ phase = "gone"
    ELSE
      /\ phase = "open"
      /\ ledger.ret_obj = "self"
      /\ Calls(events, "socketcb") = 1
      /\ events[Len(events)].msg = "socketcb"
      /\ events[Len(events)].fd = fd
      /\ events[Len(events)].kind = "COMMAND"
      /\ fd >= 0
      /\ rxbuf_live
      /\ Calls(events, "close") = 0
      /\ ~started
      /\ registered = 0

C14_Witness ==
  /\ op = "new"
  /\ ret = -ENOMEM
  /\ FailedCall = "malloc"
  /\ Calls(SetupPart, "close") = 1
  /\ fd = -1

\* the bind calls of the last arsdk_transport_net_new, in order
Binds == SelectSeq(events, LAMBDA e : e.msg = "bind")

\* C15: a bind on a non-zero port that fails with EADDRINUSE is retried once,
\* with port 0; bind is called at most twice; any other bind error, and
\* EADDRINUSE on port 0, fails the setup; when the setup succeeds the stored
\* rx port is the port the OS reports, which after a fallback is non-zero and
\* is not the port first asked for.
C15_PortFallback ==
  (op = "new" /\ Len(Binds) >= 1) =>
     LET first == Binds[1]
         last == Binds[Len(Binds)]
         fallback == first.errno = EADDRINUSE /\ first.sin_port # 0
     IN  /\ Len(Binds) <= 2
         /\ fallback <=> Len(Binds) = 2
         /\ fallback => last.sin_port = 0
         /\ last.errno # 0 => ret = -last.errno
         /\ ret = 0 =>
              /\ last.errno = 0
              /\ rx_port = bound_port
              /\ bound_port # 0
              /\ fallback => rx_port # ntohs(first.sin_port)
              /\ (~fallback /\ first.sin_port # 0) => rx_port = ntohs(first.sin_port)

C15_Witness ==
  /\ op = "new"
  /\ ret = 0
  /\ Len(Binds) = 2
  /\ ntohs(Binds[1].sin_port) = 49152
  /\ rx_port = 49153
  /\ bound_port = rx_port

\* C16: every descriptor opened is closed exactly once and every buffer
\* allocated is freed exactly once by the time the object is gone, by dispose
\* (started or not) or by a failed construction, never twice; while the
\* object lives nothing is closed or freed; the socket_cleanup that follows a
\* failed socket_setup finds fd = -1 and no buffer, and closes and frees
\* nothing.
C16_ExactlyOnce ==
  /\ ledger.closed <= ledger.opened
  /\ ledger.freed <= ledger.alloc
  /\ phase = "gone" => (ledger.closed = ledger.opened /\ ledger.freed = ledger.alloc)
  /\ phase = "open" => (ledger = Opened /\ fd >= 0 /\ rxbuf_live)
  /\ phase = "none" => ledger = Nothing
  /\ op = "dispose" => (Calls(events, "close") = 1 /\ Calls(events, "free") = 1 /\ fd = -1)
  /\ (op = "new" /\ ret < 0) =>
        /\ Calls(DisposePart, "close") = 0
        /\ Calls(DisposePart, "free") = 0
        /\ Calls(DisposePart, "pomp_loop_remove") = 0

C16_Witness ==
  /\ op = "new"
  /\ FailedCall = "setsockopt.SO_SNDBUF"
  /\ phase = "gone"
  /\ ledger.opened = 1 /\ ledger.closed = 1
  /\ ledger.alloc = 1 /\ ledger.freed = 1
  /\ DisposePart = << >>

\* C19: between operations the fd is in the event loop exactly when the
\* transport exists and is started, and never more than once; a stop of a
\* transport that is not started removes nothing; the descriptor is never
\* closed while it is in the event loop: dispose of a started transport
\* removes it first.
C19_Registration ==
  [][ /\ registered' <= 1
      /\ (registered' = 1) <=> (phase' = "open" /\ started')
      /\ ledger'.regclosed = 0
      /\ (op' = "stop" /\ ~started) =>
            /\ Calls(events', "pomp_loop_remove") = 0
            /\ registered' = registered
      /\ (op' = "stop" /\ started) =>
            /\ events' = << Call("pomp_loop_remove") >>
            /\ registered' = 0
      /\ (op' = "dispose" /\ started) =>
            /\ registered = 1
            /\ SubSeq(events', 1, 2) = << Call("pomp_loop_remove"), Call("close") >>
      /\ (op' = "dispose" /\ ~started) =>
            /\ events'[1] = Call("close")
            /\ Calls(events', "pomp_loop_remove") = 0 ]_vars

C19_Witness ==
  /\ op = "dispose"
  /\ started
  /\ phase = "gone"
  /\ registered = 0
  /\ events[1] = Call("pomp_loop_remove")
  /\ ledger.regclosed = 0

(***************************************************************************)
(* Fault injection, the transport ids, the link status                     *)
(***************************************************************************)
\* the read callback's recvfrom returned a datagram
ReadGotData == op = "data_fd_cb" /\ io.calls > 0 /\ io.last.n > 0

\* a send_data with valid arguments on a started transport
SendAccepted == op = "send_data" /\ args_ok /\ started

\* C17: with rx_drop_ratio = 100 every recvfrom that returned data makes
\* socket_read return a would-block code, no frame is forwarded and the link
\* status stays; with tx_drop_ratio = 100 every accepted send_data returns 0
\* and sendmsg is not called; with both ratios 0 nothing is dropped.
C17_DropInjection ==
  /\ (ReadGotData /\ rx_drop_ratio = 100) =>
        /\ ret < 0
        /\ ARSDK_WOULD_BLOCK(-ret)
        /\ link_status = pre_link
  /\ (op = "data_fd_cb" /\ rx_drop_ratio = 100) =>
        /\ Forwarded(events) = << >>
        /\ pc = "idle"
        /\ ret <= 0
  /\ (SendAccepted /\ tx_drop_ratio = 100) =>
        /\ ret = 0
        /\ io.calls = 0
        /\ ~wire.flying
  /\ (rx_drop_ratio = 0 /\ tx_drop_ratio = 0) =>
        /\ Logged(events, "LOGI", "rx drop") = 0
        /\ Logged(events, "LOGI", "tx drop") = 0
        /\ ReadGotData => ret = io.last.n
        /\ SendAccepted => io.calls >= 1

C17_Witness ==
  /\ ReadGotData
  /\ rx_drop_ratio = 100
  /\ tx_drop_ratio = 0
  /\ ret = -EAGAIN
  /\ Logged(events, "LOGI", "rx drop") = 1

\* the ids of the default namespace and of the constrained (BLE) one, and the
\* (base id, acknowledgment id) pairs of each
PrimaryIds ==
  { ARSDK_TRANSPORT_ID_PING, ARSDK_TRANSPORT_ID_PONG,
    ARSDK_TRANSPORT_ID_C2D_CMD_NOACK, ARSDK_TRANSPORT_ID_C2D_CMD_WITHACK,
    ARSDK_TRANSPORT_ID_C2D_CMD_HIGHPRIO,
    ARSDK_TRANSPORT_ID_D2C_CMD_NOACK, ARSDK_TRANSPORT_ID_D2C_CMD_WITHACK }

PrimaryIdsBle ==
  { ARSDK_TRANSPORT_ID_PING, ARSDK_TRANSPORT_ID_PONG,
    ARSDK_TRANSPORT_ID_C2D_CMD_NOACK, ARSDK_TRANSPORT_ID_C2D_CMD_WITHACK,
    ARSDK_TRANSPORT_ID_C2D_CMD_HIGHPRIO,
    ARSDK_TRANSPORT_ID_D2C_CMD_NOACK_BLE, ARSDK_TRANSPORT_ID_D2C_CMD_WITHACK_BLE }

AckIds ==
  { <<ARSDK_TRANSPORT_ID_D2C_CMD_WITHACK, ARSDK_TRANSPORT_ID_C2D_CMD_ACK>>,
    <<ARSDK_TRANSPORT_ID_C2D_CMD_WITHACK, ARSDK_TRANSPORT_ID_D2C_CMD_ACK>>,
    <<ARSDK_TRANSPORT_ID_C2D_CMD_HIGHPRIO, ARSDK_TRANSPORT_ID_D2C_CMD_HIGHPRIO_ACK>> }

AckIdsBle ==
  { <<ARSDK_TRANSPORT_ID_D2C_CMD_WITHACK_BLE, ARSDK_TRANSPORT_ID_C2D_CMD_ACK_BLE>>,
    <<ARSDK_TRANSPORT_ID_C2D_CMD_WITHACK, ARSDK_TRANSPORT_ID_D2C_CMD_ACK_BLE>>,
    <<ARSDK_TRANSPORT_ID_C2D_CMD_HIGHPRIO, ARSDK_TRANSPORT_ID_D2C_CMD_HIGHPRIO_ACK_BLE>> }

Namespace(primary, acks, max, ackoff) ==
  /\ 2 * ackoff = max
  /\ \A id \in primary : id >= 0 /\ id < ackoff
  /\ \A a \in acks :
        /\ a[1] \in primary
        /\ a[2] = a[1] + ackoff
        /\ a[2] >= ackoff
        /\ a[2] < max
        /\ a[2] \notin primary
        /\ a[2] # ARSDK_TRANSPORT_ID_INVALID
  /\ \A a, b \in acks : a[1] # b[1] => a[2] # b[2]

\* C18: in the default namespace (256 ids, ack offset 128) and in the
\* constrained one (32 ids, ack offset 16) every acknowledgment id is its base
\* id plus the ack offset (the ack of 126 is 254), every primary id is below
\* the ack offset, every acknowledgment id is in [ack offset, size), none is a
\* primary id or the invalid id 255, and distinct bases give distinct
\* acknowledgment ids; so the acknowledgment id of any frame on the wire fits
\* the id byte of the header and is no primary id.
C18_IdNamespace ==
  /\ ARSDK_TRANSPORT_ID_MAX = 256
  /\ ARSDK_TRANSPORT_ID_ACKOFF = 128
  /\ ARSDK_TRANSPORT_ID_MAX_BLE = 32
  /\ ARSDK_TRANSPORT_ID_ACKOFF_BLE = 16
  /\ Namespace(PrimaryIds, AckIds, ARSDK_TRANSPORT_ID_MAX, ARSDK_TRANSPORT_ID_ACKOFF)
  /\ Namespace(PrimaryIdsBle, AckIdsBle, ARSDK_TRANSPORT_ID_MAX_BLE,
               ARSDK_TRANSPORT_ID_ACKOFF_BLE)
  /\ ARSDK_TRANSPORT_ID_C2D_CMD_ACK = 254
  /\ wire.flying =>
        /\ wire.header.id \in PrimaryIds
        /\ wire.header.id + ARSDK_TRANSPORT_ID_ACKOFF < ARSDK_TRANSPORT_ID_MAX
        /\ wire.header.id + ARSDK_TRANSPORT_ID_ACKOFF \notin PrimaryIds

C18_Witness ==
  /\ wire.flying
  /\ wire.header.id = ARSDK_TRANSPORT_ID_D2C_CMD_WITHACK
  /\ wire.bytes[2] + ARSDK_TRANSPORT_ID_ACKOFF = ARSDK_TRANSPORT_ID_C2D_CMD_ACK
  /\ ARSDK_TRANSPORT_ID_C2D_CMD_ACK = 254

\* C20: the transport never sets the link status to OK; it changes it only
\* from OK to KO, and only in a read callback or a send_data whose recvfrom or
\* sendmsg failed with an error that is not would-block nor, for a send,
\* ENOBUFS; a full or partial write, would-block, ENOBUFS, a read of zero or
\* more bytes, a simulated drop, a rejected send, start, stop and a
\* configuration update leave it as it was.
C20_LinkFrame ==
  [][ op' # "set_link_status" =>
        /\ link_status' = "OK" => link_status = "OK"
        /\ link_status' # link_status =>
              /\ link_status = "OK"
              /\ link_status' = "KO"
              /\ op' \in {"data_fd_cb", "send_data"}
              /\ io'.calls > 0
              /\ io'.last.n < 0
              /\ ret' = -io'.last.errno
              /\ ~ARSDK_WOULD_BLOCK(io'.last.errno)
              /\ op' = "send_data" => io'.last.errno # ENOBUFS
        /\ op' \in {"start", "stop", "update_cfg"} => link_status' = link_status
        /\ (op' = "send_data" /\ (io'.calls = 0 \/ io'.last.n >= 0)) =>
              link_status' = link_status
        /\ (op' = "data_fd_cb" /\ io'.last.n >= 0) => link_status' = link_status ]_vars

C20_Witness ==
  /\ op = "send_data"
  /\ qos_mode = 0
  /\ pre_link = "OK"
  /\ link_status = "KO"
  /\ io.last.errno \in GenuineErrnos
  /\ ret = -io.last.errno

\* the read callback returned after the sink stopped the transport while it
\* was handed a frame of the datagram
StoppedInDispatch ==
  /\ op = "data_fd_cb"
  /\ pc = "idle"
  /\ Logged(events, "sink", "stop") > 0
  /\ Logged(events, "call", "pomp_loop_remove") > 0

\* the frames fs are the whole of the n bytes
Covers(fs, n) ==
  /\ Len(fs) > 0
  /\ fs[Len(fs)].poff + U32Nat(fs[Len(fs)].len) = n

\* C21: a stop the sink calls while it is handed frame k of a datagram does not
\* cancel the decode: the well-formed frames after k are still forwarded, in
\* order, before the read callback returns (all m of them when the datagram is
\* m well-formed frames), the transport is then stopped and out of the event
\* loop, and no datagram is read until a start succeeded.
C21_StopInDispatch ==
  /\ [](StoppedInDispatch =>
          LET ref == WellFormedPrefix(rxbuf, rxlen, 0)
          IN  /\ IsPrefix(ref, Frames)
              /\ Covers(ref, rxlen) => Frames = ref
              /\ LoggedThenForwarded(events)
              /\ ~started
              /\ registered = 0)
  /\ [][ /\ (pc = "idle" /\ op' = "data_fd_cb") => (started /\ registered = 1)
         /\ (~started /\ started') => (op' = "start" /\ ret' = 0) ]_vars

\* the sink stops the transport at the first of three frames, and all three
\* are forwarded
C21_Witness ==
  /\ StoppedInDispatch
  /\ rxbuf = Packed_10_7_23
  /\ events[3] = [ev |-> "sink", msg |-> "stop"]
  /\ Len(Frames) = 3
  /\ Frames = WellFormedPrefix(rxbuf, rxlen, 0)
  /\ ~started

\* the last operation was a send_data call whose sendmsg failed with a
\* would-block errno
WouldBlockSent ==
  /\ op = "send_data"
  /\ args_ok
  /\ io.calls > 0
  /\ io.last.n < 0
  /\ ARSDK_WOULD_BLOCK(io.last.errno)

\* C22: the code send_data returns for a partial write differs from the code
\* it returns when the write fails with a would-block errno, whichever of the
\* two sends comes first.
C22_PartialNotWouldBlock ==
  [][ /\ (WouldBlockSent /\ PartialWritten') => ret' # ret
      /\ (PartialWritten /\ WouldBlockSent') => ret' # ret ]_vars

(***************************************************************************)
(* Properties of the configuration                                         *)
(***************************************************************************)
\* the datagram of the last send_data went to the peer named by c
AddressedTo(w, c) ==
  /\ htonl(w.to.sin_addr) = c.tx_addr
  /\ ntohs(w.to.sin_port) = c.tx_port

\* C23: update_cfg(c) returning 0 stores exactly c; get_cfg returns the stored
\* configuration, which nothing but update_cfg changes, so it returns c until
\* the next update; every send_data that reaches sendmsg is addressed to the
\* stored tx address and tx port, with no restart; update_cfg leaves the
\* socket handle, the bound port, the registration, the started flag and the
\* link status as they are, also when c's rx port is not the bound port; an
\* update with no configuration is refused and changes nothing.
C23_CfgUpdate ==
  [][ /\ (op' = "update_cfg" /\ ret' = 0) =>
            /\ SelfCfg' = events'[1].cfg
            /\ UNCHANGED <<fd, bound_port, registered, started, link_status>>
      /\ (op' = "update_cfg" /\ ret' # 0) =>
            /\ ret' = -EINVAL
            /\ UNCHANGED <<SelfCfg, fd, bound_port, registered, started, link_status>>
      /\ (op' = "get_cfg" /\ ret' = 0) => events' = << Out(SelfCfg) >>
      /\ op' # "update_cfg" => SelfCfg' = SelfCfg
      /\ (op' = "send_data" /\ wire'.flying) => AddressedTo(wire', SelfCfg) ]_vars

\* a started transport, given another peer and an rx port that is not the
\* bound one, sends to the new peer
C23_Witness ==
  /\ op = "send_data"
  /\ wire.flying
  /\ AddressedTo(wire, [tx_addr |-> InAddr(192, 168, 53, 1), tx_port |-> 54321])
  /\ tx_addr # PeerAddr
  /\ rx_port # bound_port
  /\ bound_port = FixedPort
  /\ fd = NewFd
  /\ started
  /\ registered = 1

====
